---- MODULE Spec2Model ----
(***************************************************************************)
(* The face-blur tool of remoun-site (FaceBlurTool and its helpers):       *)
(* the image working set, detection batches, person clustering, the        *)
(* region interaction handlers (draw, move, resize), the blur engine and   *)
(* the cached processed output.                                            *)
(*                                                                         *)
(* Coordinates are natural image coordinates, modelled as exact integers   *)
(* (in the blur runs, exact integers of half pixels).                      *)
(* Identifiers built from Date.now() are modelled as fresh counters.       *)
(* Every handler may run whenever the element it is bound to is rendered.  *)
(***************************************************************************)
EXTENDS Integers, Sequences, FiniteSets, TLC

\* ------------------------------------------------------------ bounds
MaxBatches == 1      \* file selections per run
MaxFiles == 1        \* files in the working set plus files in flight
MaxDraws == 1        \* canvas pointer-downs that start a drawing session
MaxDrags == 1        \* pointer-downs on a region handle
MaxMoves == 1        \* pointer-moves handled per run
MaxClicks == 1       \* clicks on the strip, the person grid and the style buttons
MaxRuns == 1         \* clicks on the process button

\* the runs that cluster: files of one selection, clicks on the person grid
ClusterMaxFiles == 3
ClusterMaxClicks == 2

\* the runs that blur: clicks on the grid and the style buttons, clicks on
\* the process button
BlurMaxClicks == 2
BlurMaxRuns == 2

\* the same for the runs with two images
PairMaxFiles == 3
PairMaxDraws == 1
PairMaxDrags == 2
PairMaxMoves == 1
PairMaxClicks == 1
PairMaxRuns == 1

\* the same for the runs with a second selection of files
LaterMaxBatches == 2
LaterMaxFiles == 2
LaterMaxDraws == 1
LaterMaxDrags == 1
LaterMaxMoves == 1
LaterMaxClicks == 1
LaterMaxRuns == 1

\* ------------------------------------------------- program constants
MAX_DETECTION_SIZE == 1920
minSize == 30
PIXEL_SIZE == 24
padding == 50
ClipMargin == 10
MinDrawSize == 20
ThresholdSq == 36    \* (0.6)^2, descriptors are in tenths

\* null, for the values that are records when they are set
NULL == [null |-> TRUE]
\* selectedImageId when no image is selected (image ids start at 1)
NoImage == 0

\* ------------------------------------------------------- arithmetic
Min(a, b) == IF a < b THEN a ELSE b
Max(a, b) == IF a > b THEN a ELSE b
Abs(a) == IF a < 0 THEN -a ELSE a
\* Math.round of the non-negative fraction a/b (halves round up)
Round(a, b) == (2 * a + b) \div (2 * b)

SeqToSet(s) == {s[i] : i \in 1..Len(s)}

RECURSIVE Flatten(_)
Flatten(ss) == IF ss = <<>> THEN <<>> ELSE Head(ss) \o Flatten(Tail(ss))

mkBox(x, y, w, h) == [x |-> x, y |-> y, width |-> w, height |-> h]
Pt(x, y) == [x |-> x, y |-> y]

\* ------------------------------------------------------- the inputs
\* The pixels of the files of the interaction runs are not modelled: an
\* empty canvas stands for the decoded image.
Unrendered == [width |-> 0, height |-> 0, unit |-> 1, data |-> <<>>]

\* Files offered to the tool. "loads" is whether loadImage resolves;
\* "detects" is whether the detection engine resolves, "detections" what
\* it returns for the resized canvas: boxes are in the frame of that
\* canvas, descriptors are in tenths.
FileKid ==
    [name |-> "kid", width |-> 100, height |-> 80, img |-> Unrendered,
     loads |-> TRUE, detects |-> TRUE,
     detections |-> <<[box |-> mkBox(10, 10, 40, 40), age |-> 6, descriptor |-> <<0>>]>>]
FileAdult ==
    [name |-> "adult", width |-> 100, height |-> 80, img |-> Unrendered,
     loads |-> TRUE, detects |-> TRUE,
     detections |-> <<[box |-> mkBox(15, 25, 25, 25), age |-> 30, descriptor |-> <<4>>]>>]
FileWide ==
    [name |-> "wide", width |-> 3840, height |-> 2001, img |-> Unrendered,
     loads |-> TRUE, detects |-> TRUE,
     detections |-> <<[box |-> mkBox(0, 0, 100, 1001), age |-> 40, descriptor |-> <<20>>]>>]
FileDuo ==
    [name |-> "duo", width |-> 100, height |-> 80, img |-> Unrendered,
     loads |-> TRUE, detects |-> TRUE,
     detections |-> <<[box |-> mkBox(10, 10, 30, 30), age |-> 9, descriptor |-> <<2>>],
                      [box |-> mkBox(55, 25, 30, 30), age |-> 50, descriptor |-> <<30>>]>>]
FileCorrupt ==
    [name |-> "corrupt", width |-> 0, height |-> 0, img |-> Unrendered,
     loads |-> FALSE, detects |-> FALSE,
     detections |-> <<>>]
FileHard ==
    [name |-> "hard", width |-> 100, height |-> 80, img |-> Unrendered,
     loads |-> TRUE, detects |-> FALSE,
     detections |-> <<>>]

Files == {FileKid, FileAdult, FileWide, FileCorrupt, FileHard}

\* Pointer positions, in natural coordinates of the selected image.
Points == {Pt(-20, -20), Pt(5, 5), Pt(10, 10), Pt(20, 30), Pt(45, 60), Pt(200, 200)}

Corners == {"n", "s", "e", "w", "ne", "nw", "se", "sw"}

\* The inputs of the runs with two images: selections of two or three
\* files with a failing file at the start, in the middle or at the end,
\* and one whose faces make a cluster of two children and an adult
PairBatches ==
    {<<FileKid, FileAdult>>, <<FileKid, FileKid>>, <<FileAdult, FileDuo>>,
     <<FileHard, FileKid>>, <<FileKid, FileCorrupt>>, <<FileCorrupt, FileHard>>,
     <<FileCorrupt, FileKid, FileAdult>>, <<FileKid, FileHard, FileAdult>>,
     <<FileAdult, FileKid, FileCorrupt>>,
     <<FileKid, FileDuo, FileAdult>>}
PairPoints == {Pt(20, 30), Pt(45, 60)}
PairCorners == {"se"}

\* The inputs of the runs that cluster: descriptors of two coordinates, in
\* tenths. Ann, Bob and Cy lie on a line five apart, so that Bob is within
\* the default threshold of both and Ann and Cy are not within it of each
\* other; Dan is at exactly the threshold from Ann; the group holds a child
\* with the embedding of Ann and two adults far from everybody else.
FileAnn ==
    [name |-> "ann", width |-> 100, height |-> 80, img |-> Unrendered,
     loads |-> TRUE, detects |-> TRUE,
     detections |-> <<[box |-> mkBox(10, 10, 40, 40), age |-> 6, descriptor |-> <<0, 0>>]>>]
FileBob ==
    [name |-> "bob", width |-> 100, height |-> 80, img |-> Unrendered,
     loads |-> TRUE, detects |-> TRUE,
     detections |-> <<[box |-> mkBox(15, 25, 25, 25), age |-> 30, descriptor |-> <<3, 4>>]>>]
FileCy ==
    [name |-> "cy", width |-> 100, height |-> 80, img |-> Unrendered,
     loads |-> TRUE, detects |-> TRUE,
     detections |-> <<[box |-> mkBox(20, 20, 30, 30), age |-> 8, descriptor |-> <<6, 8>>]>>]
FileDan ==
    [name |-> "dan", width |-> 100, height |-> 80, img |-> Unrendered,
     loads |-> TRUE, detects |-> TRUE,
     detections |-> <<[box |-> mkBox(30, 10, 30, 30), age |-> 45, descriptor |-> <<0, 6>>]>>]
FileGroup ==
    [name |-> "group", width |-> 100, height |-> 80, img |-> Unrendered,
     loads |-> TRUE, detects |-> TRUE,
     detections |-> <<[box |-> mkBox(5, 5, 20, 20), age |-> 7, descriptor |-> <<0, 0>>],
                      [box |-> mkBox(40, 5, 20, 20), age |-> 40, descriptor |-> <<30, 40>>],
                      [box |-> mkBox(70, 5, 20, 20), age |-> 38, descriptor |-> <<33, 44>>]>>]
FileNobody ==
    [name |-> "nobody", width |-> 100, height |-> 80, img |-> Unrendered,
     loads |-> TRUE, detects |-> TRUE,
     detections |-> <<>>]

ClusterFiles == {FileAnn, FileBob, FileCy, FileDan, FileGroup, FileNobody}
ClusterBatches == UNION {[1..n -> ClusterFiles] : n \in 1..ClusterMaxFiles}

\* Thresholds squared: zero, below and above the distance of five, the
\* default, and one beyond every distance between the faces above
ThresholdsSq == {0, 25, 26, ThresholdSq, 37, 5000}

HasN(c) == c \in {"n", "ne", "nw"}
HasS(c) == c \in {"s", "se", "sw"}
HasE(c) == c \in {"e", "ne", "se"}
HasW(c) == c \in {"w", "nw", "sw"}

VARIABLES
    images,            \* useState: the working set, a sequence of image entries
    selectedImageId,   \* useState
    blurType,          \* useState
    isProcessing,      \* useState
    isDrawing,         \* useState
    drawStart,         \* useState
    currentRect,       \* useState
    draggingRef,       \* useRef: the drag session, or NULL
    upListeners,       \* window 'mouseup' listeners in the order attached: each
                       \* a handleGlobalMouseUp closure with the id of the
                       \* selectedImage it closed over (owner), and whether it
                       \* is the callback of the current render (fresh)
    moveListening,     \* whether handleGlobalMouseMove listens on window
    modelsLoaded,      \* useFaceDetection: useState
    error,             \* useFaceDetection: useState
    loading,           \* whether a loadModels call is waiting on its awaits
    batch,             \* the pending handleFilesSelected call, or NULL
    nextId,            \* the source of fresh identifiers (Date.now())
    left,              \* how many more events of each kind the run may take
    lastEvent          \* the event handled by the last step

vars == <<images, selectedImageId, blurType, isProcessing, isDrawing, drawStart,
          currentRect, draggingRef, upListeners, moveListening, modelsLoaded, error, loading,
          batch,
          nextId, left, lastEvent>>

\* ------------------------------------------------ detection adapter
\* resizeForDetection: the detection canvas and the scale, kept as the
\* fraction num/den (MAX_DETECTION_SIZE over the larger dimension).
resizeForDetection(img) ==
    IF img.width <= MAX_DETECTION_SIZE /\ img.height <= MAX_DETECTION_SIZE
    THEN [width |-> img.width, height |-> img.height, num |-> 1, den |-> 1]
    ELSE LET den == Max(img.width, img.height)
         IN [width |-> Round(img.width * MAX_DETECTION_SIZE, den),
             height |-> Round(img.height * MAX_DETECTION_SIZE, den),
             num |-> MAX_DETECTION_SIZE, den |-> den]

\* v / scale. The files above are chosen so that the division is exact.
DivScale(v, s) == (v * s.den) \div s.num

\* detectFaces: one record per detection, in the frame of the canvas given.
detectFaces(detections, stamp) ==
    [i \in 1..Len(detections) |->
        LET d == detections[i]
            isChild == d.age < 18
        IN [id |-> <<stamp, i>>, box |-> d.box, age |-> d.age, isChild |-> isChild,
            selected |-> isChild, descriptor |-> d.descriptor]]

\* handleFilesSelected, the body of the try block for one file: the image
\* entry pushed to newImages, its face boxes scaled back by the scale.
NewImageEntry(file, imageId) ==
    LET r == resizeForDetection(file)
        rawFaces == detectFaces(file.detections, imageId)
        faces == [i \in 1..Len(rawFaces) |->
                    [rawFaces[i] EXCEPT
                        !.box = mkBox(DivScale(rawFaces[i].box.x, r),
                                      DivScale(rawFaces[i].box.y, r),
                                      DivScale(rawFaces[i].box.width, r),
                                      DivScale(rawFaces[i].box.height, r))]]
    IN [id |-> imageId, file |-> file.name, width |-> file.width,
        height |-> file.height, img |-> file.img, faces |-> faces,
        manualRegions |-> <<>>, processed |-> NULL]

\* The outcome of the try block for one file: the entries to push, none
\* when loadImage or detectFaces rejects (the catch only logs). detectFaces
\* throws at once while the models are not loaded.
TryFile(file, imageId) ==
    IF file.loads /\ modelsLoaded /\ file.detects
    THEN <<NewImageEntry(file, imageId)>>
    ELSE <<>>

\* ------------------------------------------------- person clustering
\* faceDistance squared (descriptors of one length)
RECURSIVE SumSq(_, _, _)
SumSq(d1, d2, i) ==
    IF i > Len(d1) THEN 0
    ELSE (d1[i] - d2[i]) * (d1[i] - d2[i]) + SumSq(d1, d2, i + 1)

faceDistanceSq(d1, d2) == SumSq(d1, d2, 1)

RECURSIVE Joiners_sameSelection(_, _, _, _, _)
Joiners_sameSelection(faces, seed, assigned, j, thresholdSq) ==
    IF j > Len(faces) THEN <<>>
    ELSE IF faces[j].id \notin assigned
            /\ faces[j].selected = seed.selected
            /\ faceDistanceSq(seed.descriptor, faces[j].descriptor) < thresholdSq
         THEN <<faces[j]>> \o
              Joiners_sameSelection(faces, seed, assigned \cup {faces[j].id}, j + 1,
                                    thresholdSq)
         ELSE Joiners_sameSelection(faces, seed, assigned, j + 1, thresholdSq)

\* A variant of the inner loop that takes every face not yet assigned
RECURSIVE Joiners_everyone(_, _, _, _, _)
Joiners_everyone(faces, seed, assigned, j, thresholdSq) ==
    IF j > Len(faces) THEN <<>>
    ELSE IF faces[j].id \notin assigned
         THEN <<faces[j]>> \o Joiners_everyone(faces, seed, assigned \cup {faces[j].id},
                                               j + 1, thresholdSq)
         ELSE Joiners_everyone(faces, seed, assigned, j + 1, thresholdSq)

RECURSIVE Joiners_atOrBelow(_, _, _, _, _)
Joiners_atOrBelow(faces, seed, assigned, j, thresholdSq) ==
    IF j > Len(faces) THEN <<>>
    ELSE IF faces[j].id \notin assigned
            /\ faceDistanceSq(seed.descriptor, faces[j].descriptor) <= thresholdSq
         THEN <<faces[j]>> \o
              Joiners_atOrBelow(faces, seed, assigned \cup {faces[j].id}, j + 1, thresholdSq)
         ELSE Joiners_atOrBelow(faces, seed, assigned, j + 1, thresholdSq)

\* The inner loop of clusterFacesByPerson: the faces after position j that
\* join the seed, given the ids assigned so far.
RECURSIVE Joiners(_, _, _, _, _)
Joiners(faces, seed, assigned, j, thresholdSq) ==
    IF j > Len(faces) THEN <<>>
    ELSE IF faces[j].id \notin assigned
            /\ faceDistanceSq(seed.descriptor, faces[j].descriptor) < thresholdSq
         THEN <<faces[j]>> \o Joiners(faces, seed, assigned \cup {faces[j].id}, j + 1, thresholdSq)
         ELSE Joiners(faces, seed, assigned, j + 1, thresholdSq)

CountChild(fs) == Cardinality({i \in 1..Len(fs) : fs[i].isChild})

isChildMajority_atLeastHalf(personFaces) ==
    2 * CountChild(personFaces) >= Len(personFaces)

\* Whether a cluster is a child: strictly more than half of its members
isChildMajority(personFaces) == 2 * CountChild(personFaces) > Len(personFaces)

\* The record pushed to persons for the members gathered
Person(personFaces) ==
    [faceIds |-> [k \in 1..Len(personFaces) |-> personFaces[k].id],
     isChild |-> isChildMajority(personFaces),
     selected |-> \E k \in 1..Len(personFaces) : personFaces[k].selected]

RECURSIVE ClusterFrom_forgetsJoined(_, _, _, _)
ClusterFrom_forgetsJoined(faces, assigned, i, thresholdSq) ==
    IF i > Len(faces) THEN <<>>
    ELSE IF faces[i].id \in assigned
         THEN ClusterFrom_forgetsJoined(faces, assigned, i + 1, thresholdSq)
         ELSE LET personFaces == <<faces[i]>> \o
                     Joiners(faces, faces[i], assigned \cup {faces[i].id}, 1, thresholdSq)
              IN <<Person(personFaces)>> \o
                 ClusterFrom_forgetsJoined(faces, assigned \cup {faces[i].id}, i + 1,
                                           thresholdSq)

RECURSIVE ClusterFrom_seedAlone(_, _, _, _)
ClusterFrom_seedAlone(faces, assigned, i, thresholdSq) ==
    IF i > Len(faces) THEN <<>>
    ELSE <<Person(<<faces[i]>>)>> \o
         ClusterFrom_seedAlone(faces, assigned, i + 1, thresholdSq)

\* The outer loop of clusterFacesByPerson from position i on.
RECURSIVE ClusterFrom(_, _, _, _)
ClusterFrom(faces, assigned, i, thresholdSq) ==
    IF i > Len(faces) THEN <<>>
    ELSE IF faces[i].id \in assigned
         THEN ClusterFrom(faces, assigned, i + 1, thresholdSq)
         ELSE LET personFaces == <<faces[i]>> \o
                     Joiners(faces, faces[i], assigned \cup {faces[i].id}, 1, thresholdSq)
                  ids == {personFaces[k].id : k \in 1..Len(personFaces)}
              IN <<Person(personFaces)>> \o ClusterFrom(faces, assigned \cup ids, i + 1, thresholdSq)

clusterFacesByPerson_defaultThreshold(faces, thresholdSq) ==
    ClusterFrom(faces, {}, 1, ThresholdSq)

clusterFacesByPerson(faces, thresholdSq) == ClusterFrom(faces, {}, 1, thresholdSq)

\* useMemo: all faces across the images, and the persons
allFaces == Flatten([i \in 1..Len(images) |-> images[i].faces])
persons == clusterFacesByPerson(allFaces, ThresholdSq)

\* useMemo: the selected image entry, or NULL
ImageIds == {images[i].id : i \in 1..Len(images)}
selectedImage ==
    IF selectedImageId \in ImageIds
    THEN CHOOSE img \in SeqToSet(images) : img.id = selectedImageId
    ELSE NULL

\* The canvas and the region overlays are rendered for the selected image
canvasMounted == modelsLoaded /\ Len(images) > 0 /\ selectedImage # NULL

OnCanvas(pt) ==
    /\ 0 <= pt.x /\ pt.x <= selectedImage.width
    /\ 0 <= pt.y /\ pt.y <= selectedImage.height

InBox(pt, box) ==
    /\ box.x <= pt.x /\ pt.x <= box.x + box.width
    /\ box.y <= pt.y /\ pt.y <= box.y + box.height

\* ------------------------------------------------ region geometry
\* handleGlobalMouseMove, action 'move'
MoveBox(box, coords, offset, imgWidth, imgHeight) ==
    [box EXCEPT
        !.x = Max(0, Min(coords.x - offset.x, imgWidth - box.width)),
        !.y = Max(0, Min(coords.y - offset.y, imgHeight - box.height))]

\* A variant of the east edge update without the minimum size
ResizeE_noMinimum(box, corner, coords, imgWidth) ==
    IF HasE(corner)
    THEN [box EXCEPT !.width = Min(imgWidth - box.x, coords.x - box.x)]
    ELSE box

\* handleGlobalMouseMove, action 'resize': the four edge updates in order
ResizeE(box, corner, coords, imgWidth) ==
    IF HasE(corner)
    THEN [box EXCEPT !.width = Min(imgWidth - box.x, Max(minSize, coords.x - box.x))]
    ELSE box

ResizeW(box, corner, coords) ==
    IF HasW(corner)
    THEN LET newX == Max(0, Min(coords.x, box.x + box.width - minSize))
         IN [box EXCEPT !.width = box.x + box.width - newX, !.x = newX]
    ELSE box

ResizeS(box, corner, coords, imgHeight) ==
    IF HasS(corner)
    THEN [box EXCEPT !.height = Min(imgHeight - box.y, Max(minSize, coords.y - box.y))]
    ELSE box

ResizeN(box, corner, coords) ==
    IF HasN(corner)
    THEN LET newY == Max(0, Min(coords.y, box.y + box.height - minSize))
         IN [box EXCEPT !.height = box.y + box.height - newY, !.y = newY]
    ELSE box

ResizeBox(box, corner, coords, imgWidth, imgHeight) ==
    ResizeN(ResizeS(ResizeW(ResizeE(box, corner, coords, imgWidth), corner, coords),
                    corner, coords, imgHeight),
            corner, coords)

\* handleGlobalMouseMove: the live box after one pointer-move
DragStep(drag, coords) ==
    IF drag.action = "move"
    THEN MoveBox(drag.currentBox, coords, drag.offset, drag.imgWidth, drag.imgHeight)
    ELSE ResizeBox(drag.currentBox, drag.corner, coords, drag.imgWidth, drag.imgHeight)

\* A variant of handleGlobalMouseMove that moves the captured box along with
\* the live box
handleGlobalMouseMove_movesInitial(coords) ==
    IF draggingRef = NULL \/ ~canvasMounted
    THEN draggingRef' = draggingRef
    ELSE draggingRef' = [draggingRef EXCEPT !.currentBox = DragStep(draggingRef, coords),
                                            !.initialBox = DragStep(draggingRef, coords)]

\* handleGlobalMouseMove
handleGlobalMouseMove(coords) ==
    IF draggingRef = NULL \/ ~canvasMounted
    THEN draggingRef' = draggingRef
    ELSE draggingRef' = [draggingRef EXCEPT !.currentBox = DragStep(draggingRef, coords)]

\* handleCanvasMouseMove: the candidate rectangle of a drawing session
CandidateRect(start, coords) ==
    mkBox(Min(start.x, coords.x), Min(start.y, coords.y),
          Abs(coords.x - start.x), Abs(coords.y - start.y))

handleCanvasMouseMove(coords) ==
    IF draggingRef # NULL THEN currentRect' = currentRect
    ELSE IF ~isDrawing \/ drawStart = NULL \/ selectedImage = NULL
         THEN currentRect' = currentRect
         ELSE currentRect' = CandidateRect(drawStart, coords)

\* handleCanvasMouseUp: whether the candidate is committed as a region
CommitsRect ==
    /\ isDrawing /\ currentRect # NULL /\ selectedImage # NULL
    /\ currentRect.width > MinDrawSize /\ currentRect.height > MinDrawSize

\* handleCanvasMouseUp: the images after its setImages, if any
CanvasUpImages ==
    IF CommitsRect
    THEN LET newRegion == [id |-> nextId, box |-> currentRect, selected |-> TRUE,
                           isManual |-> TRUE]
         IN [i \in 1..Len(images) |->
                IF images[i].id # selectedImage.id THEN images[i]
                ELSE [images[i] EXCEPT
                        !.processed = NULL,
                        !.manualRegions = Append(images[i].manualRegions, newRegion)]]
    ELSE images

\* handleGlobalMouseUp: whether the live box differs from the initial box
Changed(drag) ==
    \/ drag.currentBox.x # drag.initialBox.x
    \/ drag.currentBox.y # drag.initialBox.y
    \/ drag.currentBox.width # drag.initialBox.width
    \/ drag.currentBox.height # drag.initialBox.height

SetBox(regions, id, box) ==
    [k \in 1..Len(regions) |->
        IF regions[k].id = id THEN [regions[k] EXCEPT !.box = box] ELSE regions[k]]

\* handleGlobalMouseUp: its setImages applied to imgs; ownerId is the id of
\* the selectedImage the listener closed over
GlobalUpImages(imgs, drag, ownerId) ==
    IF ~Changed(drag) THEN imgs
    ELSE [i \in 1..Len(imgs) |->
            IF imgs[i].id # ownerId THEN imgs[i]
            ELSE IF drag.type = "face"
                 THEN [imgs[i] EXCEPT
                         !.processed = NULL,
                         !.faces = SetBox(imgs[i].faces, drag.id, drag.currentBox)]
                 ELSE [imgs[i] EXCEPT
                         !.processed = NULL,
                         !.manualRegions = SetBox(imgs[i].manualRegions, drag.id,
                                                  drag.currentBox)]]

\* ------------------------------------------------------ blur engine
\* A canvas is its width, its height and its pixels in rows, each pixel the
\* four bytes r, g, b, a of ImageData. Its unit is the number of steps to
\* the pixel in which the coordinates of the regions on it are counted.

\* Math.round of the coordinate v, in steps: halves go up
MathRound(v, unit) == (2 * v + unit) \div (2 * unit)

TransparentBlack == <<0, 0, 0, 0>>

\* The colour left by the blur filter, which the model does not compute
BlurredPixel == <<-1, -1, -1, -1>>

\* imageToCanvas: a canvas of the size of the image with the image drawn
imageToCanvas(img) == img

\* One pixel of getImageData: transparent black outside the canvas
PixelAt(canvas, cx, cy) ==
    IF cx >= 0 /\ cx < canvas.width /\ cy >= 0 /\ cy < canvas.height
    THEN canvas.data[cy * canvas.width + cx + 1]
    ELSE TransparentBlack

RECURSIVE SumSeq(_)
SumSeq(s) == IF s = <<>> THEN 0 ELSE Head(s) + SumSeq(Tail(s))

\* applyPixelation: the mean of channel c over the block of the region
\* (x, y, width, height) that starts at (px, py) within it
BlockMean(canvas, x, y, width, height, px, py, c) ==
    LET cols == Min(PIXEL_SIZE, width - px)
        rows == Min(PIXEL_SIZE, height - py)
        values == [k \in 1..(cols * rows) |->
                     PixelAt(canvas, x + px + ((k - 1) % cols),
                                     y + py + ((k - 1) \div cols))[c]]
    IN Round(SumSeq(values), cols * rows)

\* applyPixelation: getImageData of the rounded box, every block filled
\* with its mean colour, alpha kept, and putImageData at the same place
applyPixelation(canvas, box) ==
    LET x == MathRound(box.x, canvas.unit)
        y == MathRound(box.y, canvas.unit)
        width == MathRound(box.width, canvas.unit)
        height == MathRound(box.height, canvas.unit)
        blocks == {<<px, py>> \in (0..(width - 1)) \X (0..(height - 1)) :
                      px % PIXEL_SIZE = 0 /\ py % PIXEL_SIZE = 0}
        mean == [b \in blocks |->
                   [c \in 1..3 |-> BlockMean(canvas, x, y, width, height, b[1], b[2], c)]]
    IN [canvas EXCEPT !.data =
          [i \in 1..Len(canvas.data) |->
              LET cx == (i - 1) % canvas.width
                  cy == (i - 1) \div canvas.width
                  b == <<((cx - x) \div PIXEL_SIZE) * PIXEL_SIZE,
                         ((cy - y) \div PIXEL_SIZE) * PIXEL_SIZE>>
              IN IF cx >= x /\ cx < x + width /\ cy >= y /\ cy < y + height
                 THEN <<mean[b][1], mean[b][2], mean[b][3], canvas.data[i][4]>>
                 ELSE canvas.data[i]]]

\* applyGaussianBlur: the source rectangle drawn back through the blur
\* filter inside the elliptical clip; a pixel is taken to be inside the
\* clip when its centre is
applyGaussianBlur(canvas, box) ==
    LET x == MathRound(box.x, canvas.unit)
        y == MathRound(box.y, canvas.unit)
        width == MathRound(box.width, canvas.unit)
        height == MathRound(box.height, canvas.unit)
        srcX == Max(0, x - padding)
        srcY == Max(0, y - padding)
        srcWidth == Min(width + padding * 2, canvas.width - srcX)
        srcHeight == Min(height + padding * 2, canvas.height - srcY)
        rx == width + 2 * ClipMargin
        ry == height + 2 * ClipMargin
    IN [canvas EXCEPT !.data =
          [i \in 1..Len(canvas.data) |->
              LET cx == (i - 1) % canvas.width
                  cy == (i - 1) \div canvas.width
                  ex == 2 * cx + 1 - 2 * x - width
                  ey == 2 * cy + 1 - 2 * y - height
              IN IF /\ cx >= srcX /\ cx < srcX + srcWidth
                    /\ cy >= srcY /\ cy < srcY + srcHeight
                    /\ ex * ex * ry * ry + ey * ey * rx * rx <= rx * rx * ry * ry
                 THEN BlurredPixel
                 ELSE canvas.data[i]]]

\* applyBlurToFaces: the loop over the selected regions from position k on
RECURSIVE BlurFrom(_, _, _, _)
BlurFrom(canvas, faces, k, style) ==
    IF k > Len(faces) THEN canvas
    ELSE IF ~faces[k].selected THEN BlurFrom(canvas, faces, k + 1, style)
    ELSE BlurFrom(IF style = "gaussian"
                  THEN applyGaussianBlur(canvas, faces[k].box)
                  ELSE applyPixelation(canvas, faces[k].box),
                  faces, k + 1, style)

applyBlurToFaces(canvas, faces, style) == BlurFrom(canvas, faces, 1, style)

\* ------------------------------------------------ processed output
\* processImages for one image: canvas.toDataURL after applyBlurToFaces on a
\* canvas drawn from the original image, kept as the canvas and what
\* determines it: the style and the regions (faces, then manual regions)
\* with box and flag.
RegionView(r) == [id |-> r.id, box |-> r.box, selected |-> r.selected]

\* A variant of the loop body that draws on the earlier output when the
\* image has one
ProcessedOutput_fromProcessed(imgData, style) ==
    [style |-> style,
     faces |-> [k \in 1..Len(imgData.faces) |-> RegionView(imgData.faces[k])],
     manualRegions |-> [k \in 1..Len(imgData.manualRegions) |->
                            RegionView(imgData.manualRegions[k])],
     canvas |-> applyBlurToFaces(IF imgData.processed = NULL
                                 THEN imageToCanvas(imgData.img)
                                 ELSE imgData.processed.canvas,
                                 imgData.faces \o imgData.manualRegions, style)]

ProcessedOutput(imgData, style) ==
    [style |-> style,
     faces |-> [k \in 1..Len(imgData.faces) |-> RegionView(imgData.faces[k])],
     manualRegions |-> [k \in 1..Len(imgData.manualRegions) |->
                            RegionView(imgData.manualRegions[k])],
     canvas |-> applyBlurToFaces(imageToCanvas(imgData.img),
                                 imgData.faces \o imgData.manualRegions, style)]

hasSelectedRegions ==
    \E i \in 1..Len(images) :
        \/ \E k \in 1..Len(images[i].faces) : images[i].faces[k].selected
        \/ \E k \in 1..Len(images[i].manualRegions) : images[i].manualRegions[k].selected

\* ------------------------------------------------------- the state
noError == "null"
loadError == "Failed to load face detection models"

\* A re-render that gives selectedImage a new identity makes a new
\* handleGlobalMouseUp: the listeners attached so far are older closures.
Stale(ls) == [k \in 1..Len(ls) |-> [ls[k] EXCEPT !.fresh = FALSE]]

drawVars == <<isDrawing, drawStart, currentRect>>
dragVars == <<draggingRef, upListeners, moveListening>>
modelVars == <<modelsLoaded, error, loading>>

Use(what) == [left EXCEPT ![what] = @ - 1]

\* The state after the component mounts, with the events the run may take
InitWith(budget) ==
    /\ images = <<>>
    /\ selectedImageId = NoImage
    /\ blurType = "gaussian"
    /\ isProcessing = FALSE
    /\ isDrawing = FALSE
    /\ drawStart = NULL
    /\ currentRect = NULL
    /\ draggingRef = NULL
    /\ upListeners = <<>>
    /\ moveListening = FALSE
    /\ modelsLoaded = FALSE
    /\ error = noError
    /\ loading = FALSE
    /\ batch = NULL
    /\ nextId = 1
    /\ left = budget
    /\ lastEvent = "mount"

Init ==
    InitWith([batches |-> MaxBatches, files |-> MaxFiles, draws |-> MaxDraws,
              drags |-> MaxDrags, moves |-> MaxMoves, clicks |-> MaxClicks,
              runs |-> MaxRuns])

\* ------------------------------------------------- model loading
\* A variant of loadModels that leaves the error as it is until the models
\* are loaded
LoadModels_keepsError ==
    /\ lastEvent = "mount" \/ error # noError
    /\ IF modelsLoaded
       THEN UNCHANGED <<error, loading>>
       ELSE error' = error /\ loading' = TRUE
    /\ lastEvent' = IF lastEvent = "mount" THEN "loadModels" ELSE "retry"
    /\ UNCHANGED <<images, selectedImageId, blurType, isProcessing, drawVars, dragVars,
                   modelsLoaded, batch, nextId, left>>

\* loadModels up to its first await, called by the effect that follows the
\* mount and by the Retry button, which is rendered while error is set
LoadModels ==
    /\ lastEvent = "mount" \/ error # noError
    /\ IF modelsLoaded
       THEN UNCHANGED <<error, loading>>
       ELSE error' = noError /\ loading' = TRUE
    /\ lastEvent' = IF lastEvent = "mount" THEN "loadModels" ELSE "retry"
    /\ UNCHANGED <<images, selectedImageId, blurType, isProcessing, drawVars, dragVars,
                   modelsLoaded, batch, nextId, left>>

\* loadModels after its last await: the import and the four nets resolved
LoadModelsOk ==
    /\ loading
    /\ modelsLoaded' = TRUE
    /\ loading' = FALSE
    /\ lastEvent' = IF lastEvent = "retry" THEN "retryLoaded" ELSE "modelsLoaded"
    /\ UNCHANGED <<images, selectedImageId, blurType, isProcessing, drawVars, dragVars,
                   error, batch, nextId, left>>

LoadModelsFail_marksLoaded ==
    /\ loading
    /\ error' = loadError
    /\ modelsLoaded' = TRUE
    /\ loading' = FALSE
    /\ lastEvent' = "loadModelsFailed"
    /\ UNCHANGED <<images, selectedImageId, blurType, isProcessing, drawVars, dragVars,
                   batch, nextId, left>>

\* loadModels when the import or one of the nets rejects: the catch
LoadModelsFail ==
    /\ loading
    /\ error' = loadError
    /\ loading' = FALSE
    /\ lastEvent' = "loadModelsFailed"
    /\ UNCHANGED <<images, selectedImageId, blurType, isProcessing, drawVars, dragVars,
                   modelsLoaded, batch, nextId, left>>

\* ----------------------------------------------- detection batches
Batches == UNION {[1..n -> Files] : n \in 1..MaxFiles}

\* handleFilesSelected up to its first await. The ImageSelector is rendered
\* once the models are loaded, and the handler returns at once before that.
FilesSelected(files) ==
    /\ modelsLoaded
    /\ ~isProcessing
    /\ left.batches > 0
    /\ Len(files) <= left.files
    /\ isProcessing' = TRUE
    /\ batch' = [files |-> files, i |-> 1, newImages |-> <<>>,
                 selectedImageId |-> selectedImageId]
    /\ left' = [left EXCEPT !.batches = @ - 1, !.files = @ - Len(files)]
    /\ lastEvent' = "filesSelected"
    /\ UNCHANGED <<images, selectedImageId, blurType, drawVars, dragVars, modelVars, nextId>>

\* One pass of the loop body of handleFilesSelected over file b.i: the try
\* block pushes the entry or the catch logs, and the loop goes on either way.
BatchAfter_stopsOnFailure(b, imageId) ==
    LET got == TryFile(b.files[b.i], imageId)
    IN [b EXCEPT !.i = IF got = <<>> THEN Len(b.files) + 1 ELSE @ + 1,
                 !.newImages = @ \o got]

BatchAfter(b, imageId) ==
    [b EXCEPT !.i = @ + 1, !.newImages = @ \o TryFile(b.files[b.i], imageId)]

\* A variant of the finish that puts the faces of the images already
\* loaded back to the selection they were detected with
BatchResume_resetsSelection ==
    /\ batch # NULL
    /\ LET b == BatchAfter(batch, nextId)
           newImages == b.newImages
       IN IF b.i <= Len(b.files)
          THEN /\ batch' = b
               /\ UNCHANGED <<images, selectedImageId, isProcessing, upListeners>>
          ELSE /\ images' = [i \in 1..Len(images) |->
                                [images[i] EXCEPT
                                    !.faces = [k \in 1..Len(images[i].faces) |->
                                                 [images[i].faces[k] EXCEPT
                                                     !.selected = images[i].faces[k].isChild]]]]
                             \o newImages
               /\ selectedImageId' =
                     IF Len(newImages) > 0 /\ batch.selectedImageId = NoImage
                     THEN newImages[1].id
                     ELSE selectedImageId
               /\ upListeners' = IF selectedImageId' # selectedImageId
                                 THEN Stale(upListeners) ELSE upListeners
               /\ isProcessing' = FALSE
               /\ batch' = NULL
    /\ nextId' = nextId + 1
    /\ lastEvent' = "batchResume"
    /\ UNCHANGED <<blurType, drawVars, draggingRef, moveListening, modelVars, left>>

\* handleFilesSelected resumed when the awaits of file i settle: the rest
\* of the loop body, and after the last file the code that follows the loop
BatchResume ==
    /\ batch # NULL
    /\ LET b == BatchAfter(batch, nextId)
           newImages == b.newImages
       IN IF b.i <= Len(b.files)
          THEN /\ batch' = b
               /\ UNCHANGED <<images, selectedImageId, isProcessing, upListeners>>
          ELSE /\ images' = images \o newImages
               /\ selectedImageId' =
                     IF Len(newImages) > 0 /\ batch.selectedImageId = NoImage
                     THEN newImages[1].id
                     ELSE selectedImageId
               /\ upListeners' = IF selectedImageId' # selectedImageId
                                 THEN Stale(upListeners) ELSE upListeners
               /\ isProcessing' = FALSE
               /\ batch' = NULL
    /\ nextId' = nextId + 1
    /\ lastEvent' = "batchResume"
    /\ UNCHANGED <<blurType, drawVars, draggingRef, moveListening, modelVars, left>>

\* --------------------------------------------------- image strip
toolShown == modelsLoaded /\ Len(images) > 0
clickable == toolShown /\ left.clicks > 0

\* chip onClick
SelectImage(id) ==
    /\ clickable
    /\ id \in ImageIds
    /\ selectedImageId' = id
    /\ upListeners' = IF id # selectedImageId THEN Stale(upListeners) ELSE upListeners
    /\ left' = Use("clicks")
    /\ lastEvent' = "selectImage"
    /\ UNCHANGED <<images, blurType, isProcessing, drawVars, draggingRef, moveListening,
                   modelVars, batch, nextId>>

FirstOther(imageId) ==
    LET idx == {i \in 1..Len(images) : images[i].id # imageId}
    IN IF idx = {} THEN NoImage
       ELSE images[CHOOSE i \in idx : \A j \in idx : i <= j].id

\* removeImage
RemoveImage(imageId) ==
    /\ clickable
    /\ imageId \in ImageIds
    /\ images' = SelectSeq(images, LAMBDA img : img.id # imageId)
    /\ selectedImageId' =
          IF selectedImageId = imageId
          THEN (IF Len(images) > 1 THEN FirstOther(imageId) ELSE NoImage)
          ELSE selectedImageId
    /\ upListeners' = IF selectedImageId = imageId THEN Stale(upListeners) ELSE upListeners
    /\ left' = Use("clicks")
    /\ lastEvent' = "removeImage"
    /\ UNCHANGED <<blurType, isProcessing, drawVars, draggingRef, moveListening,
                   modelVars, batch, nextId>>

\* -------------------------------------------------- person grid
\* A flag for each face, given by face, as a flag for each face id
ById(sel) ==
    [id \in {f.id : f \in DOMAIN sel} |->
        sel[CHOOSE f \in DOMAIN sel : f.id = id]]

\* setImages of the selection handlers: every image is rebuilt with its
\* processed output cleared and each face flagged as sel says
SetSelected(imgs, sel) ==
    [i \in 1..Len(imgs) |->
        [imgs[i] EXCEPT
            !.processed = NULL,
            !.faces = [k \in 1..Len(imgs[i].faces) |->
                         [imgs[i].faces[k] EXCEPT !.selected = sel[imgs[i].faces[k].id]]]]]

SelectionStep(newImages, event) ==
    /\ left.clicks > 0
    /\ images' = newImages
    /\ upListeners' = Stale(upListeners)
    /\ left' = Use("clicks")
    /\ lastEvent' = event
    /\ UNCHANGED <<selectedImageId, blurType, isProcessing, drawVars, draggingRef,
                   moveListening, modelVars, batch, nextId>>

TogglePersonSelection_flipsEach(p) ==
    /\ toolShown
    /\ p \in 1..Len(persons)
    /\ LET faceIdsToToggle == SeqToSet(persons[p].faceIds)
           sel == [f \in SeqToSet(allFaces) |->
                      IF f.id \in faceIdsToToggle THEN ~f.selected ELSE f.selected]
       IN SelectionStep(SetSelected(images, ById(sel)), "togglePerson")

\* togglePersonSelection
TogglePersonSelection(p) ==
    /\ toolShown
    /\ p \in 1..Len(persons)
    /\ LET person == persons[p]
           newSelected == ~person.selected
           faceIdsToToggle == SeqToSet(person.faceIds)
           sel == [f \in SeqToSet(allFaces) |->
                      IF f.id \in faceIdsToToggle THEN newSelected ELSE f.selected]
       IN SelectionStep(SetSelected(images, ById(sel)), "togglePerson")

\* selectAllPersons
SelectAllPersons ==
    /\ toolShown
    /\ Len(persons) > 0
    /\ LET sel == [f \in SeqToSet(allFaces) |-> TRUE]
       IN SelectionStep(SetSelected(images, ById(sel)), "selectAll")

\* A variant of deselectAllPersons that unselects the manual regions too
DeselectAllPersons_clearsManual ==
    /\ toolShown
    /\ Len(persons) > 0
    /\ LET sel == [f \in SeqToSet(allFaces) |-> FALSE]
           cleared == SetSelected(images, ById(sel))
       IN SelectionStep([i \in 1..Len(cleared) |->
                            [cleared[i] EXCEPT
                                !.manualRegions =
                                    [k \in 1..Len(cleared[i].manualRegions) |->
                                        [cleared[i].manualRegions[k] EXCEPT
                                            !.selected = FALSE]]]],
                        "deselectAll")

\* deselectAllPersons
DeselectAllPersons ==
    /\ toolShown
    /\ Len(persons) > 0
    /\ LET sel == [f \in SeqToSet(allFaces) |-> FALSE]
       IN SelectionStep(SetSelected(images, ById(sel)), "deselectAll")

\* A variant of selectChildrenOnly that goes by each face's own child flag
SelectChildrenOnly_ownFlag ==
    /\ toolShown
    /\ \E p \in 1..Len(persons) : persons[p].isChild
    /\ LET sel == [f \in SeqToSet(allFaces) |-> f.isChild]
       IN SelectionStep(SetSelected(images, ById(sel)), "selectChildren")

\* selectChildrenOnly
SelectChildrenOnly ==
    /\ toolShown
    /\ \E p \in 1..Len(persons) : persons[p].isChild
    /\ LET childFaceIds == UNION {SeqToSet(persons[p].faceIds) :
                                    p \in {q \in 1..Len(persons) : persons[q].isChild}}
           sel == [f \in SeqToSet(allFaces) |-> f.id \in childFaceIds]
       IN SelectionStep(SetSelected(images, ById(sel)), "selectChildren")

\* removeManualRegion, from the remove button of a region of the selected image
RemoveManualRegion(regionId) ==
    /\ canvasMounted
    /\ left.clicks > 0
    /\ \E k \in 1..Len(selectedImage.manualRegions) :
            selectedImage.manualRegions[k].id = regionId
    /\ images' = [i \in 1..Len(images) |->
                    IF images[i].id # selectedImage.id THEN images[i]
                    ELSE [images[i] EXCEPT
                            !.processed = NULL,
                            !.manualRegions = SelectSeq(images[i].manualRegions,
                                                        LAMBDA r : r.id # regionId)]]
    /\ upListeners' = Stale(upListeners)
    /\ left' = Use("clicks")
    /\ lastEvent' = "removeManualRegion"
    /\ UNCHANGED <<selectedImageId, blurType, isProcessing, drawVars, draggingRef,
                   moveListening, modelVars, batch, nextId>>

\* --------------------------------------------------------- footer
\* A variant of the blur style onClick that keeps the cached outputs
SetBlurType_keepsCache(key) ==
    /\ clickable
    /\ blurType' = key
    /\ upListeners' = upListeners
    /\ left' = Use("clicks")
    /\ lastEvent' = "setBlurType"
    /\ UNCHANGED <<images, selectedImageId, isProcessing, drawVars, draggingRef,
                   moveListening, modelVars, batch, nextId>>

\* blur style button onClick
SetBlurType(key) ==
    /\ clickable
    /\ blurType' = key
    /\ images' = [i \in 1..Len(images) |-> [images[i] EXCEPT !.processed = NULL]]
    /\ upListeners' = Stale(upListeners)
    /\ left' = Use("clicks")
    /\ lastEvent' = "setBlurType"
    /\ UNCHANGED <<selectedImageId, isProcessing, drawVars, draggingRef, moveListening,
                   modelVars, batch, nextId>>

\* processImages (it has no await: it runs to completion)
ProcessImages ==
    /\ toolShown
    /\ left.runs > 0
    /\ ~isProcessing
    /\ hasSelectedRegions
    /\ images' = [i \in 1..Len(images) |->
                    [images[i] EXCEPT !.processed = ProcessedOutput(images[i], blurType)]]
    /\ isProcessing' = FALSE
    /\ upListeners' = Stale(upListeners)
    /\ left' = Use("runs")
    /\ lastEvent' = "processImages"
    /\ UNCHANGED <<selectedImageId, blurType, drawVars, draggingRef, moveListening,
                   modelVars, batch, nextId>>

\* ---------------------------------------------- pointer on the canvas
\* A variant of handleCanvasMouseDown without its draggingRef check
handleCanvasMouseDown_unguarded(coords) ==
    /\ left.draws > 0
    /\ isDrawing' = TRUE
    /\ drawStart' = coords
    /\ currentRect' = NULL
    /\ left' = Use("draws")

\* handleCanvasMouseDown
handleCanvasMouseDown(coords) ==
    IF draggingRef # NULL
    THEN UNCHANGED <<drawVars, left>>
    ELSE /\ left.draws > 0
         /\ isDrawing' = TRUE
         /\ drawStart' = coords
         /\ currentRect' = NULL
         /\ left' = Use("draws")

\* mousedown on the canvas
CanvasMouseDown(pt) ==
    /\ canvasMounted
    /\ OnCanvas(pt)
    /\ handleCanvasMouseDown(pt)
    /\ lastEvent' = "canvasMouseDown"
    /\ UNCHANGED <<images, selectedImageId, blurType, isProcessing, dragVars, modelVars,
                   batch, nextId>>

\* mousemove over the canvas: handleCanvasMouseMove, then the window
\* listener handleGlobalMouseMove when it is attached
CanvasMouseMove(pt) ==
    /\ canvasMounted
    /\ OnCanvas(pt)
    /\ left.moves > 0
    /\ handleCanvasMouseMove(pt)
    /\ IF moveListening THEN handleGlobalMouseMove(pt) ELSE draggingRef' = draggingRef
    /\ left' = Use("moves")
    /\ lastEvent' = "canvasMouseMove"
    /\ UNCHANGED <<images, selectedImageId, blurType, isProcessing, isDrawing, drawStart,
                   upListeners, moveListening, modelVars, batch, nextId>>

\* mousemove anywhere else in the window: handleGlobalMouseMove only
WindowMouseMove(pt) ==
    /\ moveListening
    /\ left.moves > 0
    /\ handleGlobalMouseMove(pt)
    /\ left' = Use("moves")
    /\ lastEvent' = "windowMouseMove"
    /\ UNCHANGED <<images, selectedImageId, blurType, isProcessing, drawVars,
                   upListeners, moveListening, modelVars, batch, nextId>>

\* The window 'mouseup' listeners run in the order attached. Each returns at
\* once when draggingRef is null; the first one that finds a session commits
\* it with the selectedImage it closed over, clears the ref and removes
\* itself and the mousemove listener.
ListenerRuns == draggingRef # NULL /\ upListeners # <<>>

\* Whether the step gives selectedImage a new identity
Recreates(canvasCommit) ==
    \/ canvasCommit
    \/ /\ ListenerRuns
       /\ Changed(draggingRef)
       /\ Head(upListeners).owner = selectedImageId
       /\ selectedImage # NULL

\* A variant of handleGlobalMouseUp that commits the live box and leaves the
\* session in draggingRef
handleGlobalMouseUp_keepsSession(imgs, canvasCommit) ==
    IF ListenerRuns
    THEN /\ images' = GlobalUpImages(imgs, draggingRef, Head(upListeners).owner)
         /\ upListeners' = IF Recreates(canvasCommit)
                           THEN Stale(upListeners) ELSE upListeners
         /\ UNCHANGED <<draggingRef, moveListening>>
    ELSE /\ images' = imgs
         /\ upListeners' = IF canvasCommit THEN Stale(upListeners) ELSE upListeners
         /\ UNCHANGED <<draggingRef, moveListening>>

\* handleGlobalMouseUp, as run by the window listeners, on the images imgs
handleGlobalMouseUp(imgs, canvasCommit) ==
    IF ListenerRuns
    THEN /\ images' = GlobalUpImages(imgs, draggingRef, Head(upListeners).owner)
         /\ draggingRef' = NULL
         /\ upListeners' = IF Recreates(canvasCommit)
                           THEN Stale(Tail(upListeners)) ELSE Tail(upListeners)
         /\ moveListening' = FALSE
    ELSE /\ images' = imgs
         /\ upListeners' = IF canvasCommit THEN Stale(upListeners) ELSE upListeners
         /\ UNCHANGED <<draggingRef, moveListening>>

\* mouseup over the canvas: handleCanvasMouseUp, then the window listeners
CanvasMouseUp ==
    /\ canvasMounted
    /\ handleGlobalMouseUp(CanvasUpImages, CommitsRect)
    /\ isDrawing' = FALSE
    /\ drawStart' = NULL
    /\ currentRect' = NULL
    /\ nextId' = IF CommitsRect THEN nextId + 1 ELSE nextId
    /\ lastEvent' = "canvasMouseUp"
    /\ UNCHANGED <<selectedImageId, blurType, isProcessing, modelVars, batch, left>>

\* mouseup anywhere else in the window: the window listeners only
WindowMouseUp ==
    /\ upListeners # <<>>
    /\ handleGlobalMouseUp(images, FALSE)
    /\ IF ListenerRuns
       THEN isDrawing' = FALSE /\ drawStart' = NULL /\ currentRect' = NULL
       ELSE UNCHANGED drawVars
    /\ lastEvent' = "windowMouseUp"
    /\ UNCHANGED <<selectedImageId, blurType, isProcessing, modelVars, batch, nextId, left>>

\* mouseleave of the canvas: handleCanvasMouseUp only
CanvasMouseLeave ==
    /\ canvasMounted
    /\ images' = CanvasUpImages
    /\ upListeners' = IF CommitsRect THEN Stale(upListeners) ELSE upListeners
    /\ isDrawing' = FALSE
    /\ drawStart' = NULL
    /\ currentRect' = NULL
    /\ nextId' = IF CommitsRect THEN nextId + 1 ELSE nextId
    /\ lastEvent' = "canvasMouseLeave"
    /\ UNCHANGED <<selectedImageId, blurType, isProcessing, draggingRef, moveListening,
                   modelVars, batch, left>>

\* ------------------------------------------- pointer on a region handle
Regions(regionType) ==
    IF regionType = "face" THEN selectedImage.faces ELSE selectedImage.manualRegions

RegionIndexes(regionType) ==
    IF selectedImage = NULL THEN {} ELSE 1..Len(Regions(regionType))

\* Where the pointer is when it presses a handle: anywhere on the region
\* for the move handle, on the named edge or corner for a resize handle
HandlePoints(points, box, action, corner) ==
    IF action = "move" THEN {pt \in points : InBox(pt, box)}
    ELSE {Pt(IF HasW(corner) THEN box.x
             ELSE IF HasE(corner) THEN box.x + box.width
             ELSE box.x + box.width \div 2,
             IF HasN(corner) THEN box.y
             ELSE IF HasS(corner) THEN box.y + box.height
             ELSE box.y + box.height \div 2)}

\* handleRegionMouseDown
RegionMouseDown(regionType, k, action, corner, points) ==
    /\ canvasMounted
    /\ left.drags > 0
    /\ k \in 1..Len(Regions(regionType))
    /\ LET region == Regions(regionType)[k]
       IN \E pt \in HandlePoints(points, region.box, action, corner) :
             draggingRef' =
                [type |-> regionType, id |-> region.id, action |-> action,
                 corner |-> corner,
                 offset |-> Pt(pt.x - region.box.x, pt.y - region.box.y),
                 initialBox |-> region.box, currentBox |-> region.box,
                 imgWidth |-> selectedImage.width, imgHeight |-> selectedImage.height]
    /\ upListeners' =
          IF \E j \in 1..Len(upListeners) : upListeners[j].fresh
          THEN upListeners
          ELSE Append(upListeners, [owner |-> selectedImage.id, fresh |-> TRUE])
    /\ moveListening' = TRUE
    /\ left' = Use("drags")
    /\ lastEvent' = "regionMouseDown"
    /\ UNCHANGED <<images, selectedImageId, blurType, isProcessing, drawVars, modelVars,
                   batch, nextId>>

\* ------------------------------------------------------ the tool
\* Every handler of the tool, with its inputs drawn from the sets given
NextOver(batches, points, corners) ==
    \/ LoadModels
    \/ LoadModelsOk
    \/ LoadModelsFail
    \/ \E files \in batches : FilesSelected(files)
    \/ BatchResume
    \/ \E id \in ImageIds : SelectImage(id)
    \/ \E id \in ImageIds : RemoveImage(id)
    \/ \E p \in 1..Len(persons) : TogglePersonSelection(p)
    \/ SelectAllPersons
    \/ DeselectAllPersons
    \/ SelectChildrenOnly
    \/ \E r \in 1..nextId : RemoveManualRegion(r)
    \/ \E key \in {"gaussian", "pixel"} : SetBlurType(key)
    \/ ProcessImages
    \/ \E pt \in points : CanvasMouseDown(pt)
    \/ \E pt \in points : CanvasMouseMove(pt)
    \/ \E pt \in points : WindowMouseMove(pt)
    \/ CanvasMouseUp
    \/ WindowMouseUp
    \/ CanvasMouseLeave
    \/ \E t \in {"face", "manual"}, c \in corners \cup {"none"} :
          \E k \in RegionIndexes(t) :
             RegionMouseDown(t, k, IF c = "none" THEN "move" ELSE "resize", c, points)

\* One image at a time, every kind of file, every handle
Next == NextOver(Batches, Points, Corners)

Spec == Init /\ [][Next]_vars

\* One selection of two or three files, some of which may fail, loading up
\* to two images, and two presses on region handles
InitPair ==
    InitWith([batches |-> 1, files |-> PairMaxFiles, draws |-> PairMaxDraws,
              drags |-> PairMaxDrags, moves |-> PairMaxMoves, clicks |-> PairMaxClicks,
              runs |-> PairMaxRuns])

NextPair == NextOver(PairBatches, PairPoints, PairCorners)

SpecPair == InitPair /\ [][NextPair]_vars

\* Two selections of one file each: the handlers run on the first image
\* while the second selection is awaiting
LaterBatches == {<<FileKid>>, <<FileAdult>>, <<FileCorrupt>>}
LaterPoints == {Pt(20, 30), Pt(45, 60)}
LaterCorners == {"se"}

InitLater ==
    InitWith([batches |-> LaterMaxBatches, files |-> LaterMaxFiles,
              draws |-> LaterMaxDraws, drags |-> LaterMaxDrags,
              moves |-> LaterMaxMoves, clicks |-> LaterMaxClicks,
              runs |-> LaterMaxRuns])

NextLater == NextOver(LaterBatches, LaterPoints, LaterCorners)

SpecLater == InitLater /\ [][NextLater]_vars

\* One selection of up to three files with faces near and far from each
\* other, then clicks on the person grid and the strip
InitCluster ==
    InitWith([batches |-> 1, files |-> ClusterMaxFiles, draws |-> 0, drags |-> 0,
              moves |-> 0, clicks |-> ClusterMaxClicks, runs |-> 0])

NextCluster ==
    \/ LoadModels
    \/ LoadModelsOk
    \/ LoadModelsFail
    \/ \E files \in ClusterBatches : FilesSelected(files)
    \/ BatchResume
    \/ \E id \in ImageIds : RemoveImage(id)
    \/ \E p \in 1..Len(persons) : TogglePersonSelection(p)
    \/ SelectAllPersons
    \/ DeselectAllPersons
    \/ SelectChildrenOnly

SpecCluster == InitCluster /\ [][NextCluster]_vars

\* ------------------------------------------------------ blur runs
\* A strip of 32 by 3 opaque pixels, no two neighbours alike, with the
\* regions on it measured in half pixels
Strip ==
    [width |-> 32, height |-> 3, unit |-> 2,
     data |-> [i \in 1..96 |-> <<(37 * i) % 256, (i * i) % 256, 255 - i, 255>>]]

\* Boxes of detected faces on the strip, in half pixels: whole and half
\* coordinates, one block and two, inside the strip and across its right
\* edge
BlurBoxes ==
    {mkBox(4, 0, 52, 4),      \* x 2, y 0, 26 by 2
     mkBox(5, 0, 51, 4),      \* x 2.5, y 0, 25.5 by 2
     mkBox(8, 2, 48, 4),      \* x 4, y 1, 24 by 2
     mkBox(40, 2, 48, 4),     \* x 20, y 1, 24 by 2
     mkBox(9, 1, 50, 3)}      \* x 4.5, y 0.5, 25 by 1.5

\* The entry of the strip with a child and an adult detected on it
StripEntry(childBox, childSelected, adultBox, adultSelected) ==
    [id |-> 1, file |-> "strip", width |-> Strip.width, height |-> Strip.height,
     img |-> Strip,    \* boxes below in half pixels
     faces |-> <<[id |-> <<1, 1>>, box |-> childBox, age |-> 7, isChild |-> TRUE,
                  selected |-> childSelected, descriptor |-> <<0>>],
                 [id |-> <<1, 2>>, box |-> adultBox, age |-> 40, isChild |-> FALSE,
                  selected |-> adultSelected, descriptor |-> <<30>>]>>,
     manualRegions |-> <<>>, processed |-> NULL]

\* The tool with the strip loaded, two faces detected on it and any
\* selection of them, before the style is chosen and the process button
\* is clicked
InitBlur ==
    /\ \E childBox \in BlurBoxes, adultBox \in BlurBoxes :
          \E childSelected \in BOOLEAN, adultSelected \in BOOLEAN :
             images = <<StripEntry(childBox, childSelected, adultBox, adultSelected)>>
    /\ selectedImageId = 1
    /\ blurType = "gaussian"
    /\ isProcessing = FALSE
    /\ isDrawing = FALSE
    /\ drawStart = NULL
    /\ currentRect = NULL
    /\ draggingRef = NULL
    /\ upListeners = <<>>
    /\ moveListening = FALSE
    /\ modelsLoaded = TRUE
    /\ error = noError
    /\ loading = FALSE
    /\ batch = NULL
    /\ nextId = 2
    /\ left = [batches |-> 0, files |-> 0, draws |-> 0, drags |-> 0, moves |-> 0,
               clicks |-> BlurMaxClicks, runs |-> BlurMaxRuns]
    /\ lastEvent = "batchResume"

NextBlur ==
    \/ \E key \in {"gaussian", "pixel"} : SetBlurType(key)
    \/ \E p \in 1..Len(persons) : TogglePersonSelection(p)
    \/ SelectAllPersons
    \/ DeselectAllPersons
    \/ SelectChildrenOnly
    \/ ProcessImages

SpecBlur == InitBlur /\ [][NextBlur]_vars

\* ============================================================ properties
PointerUps == {"canvasMouseUp", "windowMouseUp"}
PointerMoves == {"canvasMouseMove", "windowMouseMove"}

WithinBounds(box, w, h) ==
    /\ 0 <= box.x /\ 0 <= box.y
    /\ box.x + box.width <= w /\ box.y + box.height <= h

\* The step ran handleGlobalMouseMove on an active session of the given kind
DragMoveStep(action) ==
    /\ draggingRef # NULL /\ draggingRef' # NULL
    /\ draggingRef.action = action
    /\ canvasMounted
    /\ lastEvent' \in PointerMoves

\* ---- C1: in every reachable state a drawing session (isDrawing) and a drag
\* session (draggingRef set) are never active at the same time.
C1_Exclusive == ~(isDrawing /\ draggingRef # NULL)

\* ---- C2: while a drag session is active no step starts a drawing session
\* and no step gives the candidate rectangle a new value: a pointer-down and
\* a pointer-move on the canvas leave the drawing state as it was.
C2_DragSuppressesDraw ==
    [][draggingRef # NULL =>
          /\ isDrawing' => isDrawing
          /\ currentRect' = currentRect \/ currentRect' = NULL
          /\ drawStart' = drawStart \/ drawStart' = NULL]_vars

\* a pointer-down on the canvas was handled during a drag and started nothing
C2_Witness ==
    /\ draggingRef # NULL
    /\ lastEvent = "canvasMouseDown"
    /\ ~isDrawing
    /\ left.draws > 0

OwnsTarget(img, drag) ==
    LET regions == IF drag.type = "face" THEN img.faces ELSE img.manualRegions
    IN \E k \in 1..Len(regions) : regions[k].id = drag.id

C4_DragEndCommits ==
    [][(/\ draggingRef # NULL /\ draggingRef' = NULL
        /\ lastEvent' = "windowMouseUp" \/ (lastEvent' = "canvasMouseUp" /\ ~isDrawing))
          => /\ Len(images') = Len(images)
             /\ \A i \in 1..Len(images) :
                  LET hit == OwnsTarget(images[i], draggingRef) /\ Changed(draggingRef)
                  IN /\ images'[i].faces =
                          IF hit /\ draggingRef.type = "face"
                          THEN SetBox(images[i].faces, draggingRef.id, draggingRef.currentBox)
                          ELSE images[i].faces
                     /\ images'[i].manualRegions =
                          IF hit /\ draggingRef.type = "manual"
                          THEN SetBox(images[i].manualRegions, draggingRef.id,
                                      draggingRef.currentBox)
                          ELSE images[i].manualRegions
                     /\ images'[i].processed =
                          IF hit THEN NULL ELSE images[i].processed]_vars

\* ---- C5: every move step of a drag yields a box inside the image bounds,
\* with the width and height it had.
C5_MoveWithinBounds ==
    [][DragMoveStep("move") =>
          /\ WithinBounds(draggingRef'.currentBox, draggingRef.imgWidth,
                          draggingRef.imgHeight)
          /\ draggingRef'.currentBox.width = draggingRef.currentBox.width
          /\ draggingRef'.currentBox.height = draggingRef.currentBox.height]_vars

\* ---- C6 (as stated): every resize step, on any handle, from any region
\* box, yields a box with width >= 30 and height >= 30.
C6_ResizeMinimum ==
    [][DragMoveStep("resize") =>
          /\ draggingRef'.currentBox.width >= minSize
          /\ draggingRef'.currentBox.height >= minSize]_vars

\* ---- C6 (amended): a resize step leaves a dimension its handle does not
\* drive as it was, and from a box that lies within the image bounds with
\* width >= 30 and height >= 30 it yields width >= 30 and height >= 30.
C6_ResizeKeepsMinimum ==
    [][DragMoveStep("resize") =>
          LET b == draggingRef.currentBox
              r == draggingRef'.currentBox
              c == draggingRef.corner
          IN /\ ~(HasE(c) \/ HasW(c)) => r.x = b.x /\ r.width = b.width
             /\ ~(HasN(c) \/ HasS(c)) => r.y = b.y /\ r.height = b.height
             /\ (/\ WithinBounds(b, draggingRef.imgWidth, draggingRef.imgHeight)
                 /\ b.width >= minSize /\ b.height >= minSize)
                   => r.width >= minSize /\ r.height >= minSize]_vars

\* a resize whose pointer went past the opposite edge stopped at the minimum
C6_Witness ==
    /\ draggingRef # NULL
    /\ draggingRef.action = "resize"
    /\ lastEvent \in PointerMoves
    /\ draggingRef.initialBox.width > minSize
    /\ draggingRef.currentBox.width = minSize

\* ---- C7: while a drawing session tracks the pointer the candidate is the
\* bounding rectangle of the start point and the pointer; when the session
\* ends the candidate is appended to the selected image's manual regions,
\* selected, iff its width > 20 and its height > 20, and otherwise the
\* manual regions keep their number.
ManualCount(imgs) ==
    [i \in 1..Len(imgs) |-> Len(imgs[i].manualRegions)]

C7_DrawEnd ==
    [][/\ (isDrawing /\ isDrawing' /\ currentRect' # NULL /\ drawStart' # NULL) =>
             /\ currentRect'.width >= 0 /\ currentRect'.height >= 0
             /\ drawStart'.x \in {currentRect'.x, currentRect'.x + currentRect'.width}
             /\ drawStart'.y \in {currentRect'.y, currentRect'.y + currentRect'.height}
       /\ (isDrawing /\ ~isDrawing') =>
             IF /\ currentRect # NULL
                /\ currentRect.width > MinDrawSize /\ currentRect.height > MinDrawSize
             THEN /\ Len(images') = Len(images)
                  /\ \A i \in 1..Len(images) :
                       IF images[i].id = selectedImageId
                       THEN /\ Len(images'[i].manualRegions) = Len(images[i].manualRegions) + 1
                            /\ LET r == images'[i].manualRegions[Len(images'[i].manualRegions)]
                               IN r.box = currentRect /\ r.selected
                       ELSE Len(images'[i].manualRegions) = Len(images[i].manualRegions)
             ELSE ManualCount(images') = ManualCount(images)]_vars

\* ---- C8: in every reachable state every detected-face box lies within
\* the bounds of the image that holds it.
C8_FacesWithinBounds ==
    \A i \in 1..Len(images) : \A k \in 1..Len(images[i].faces) :
        WithinBounds(images[i].faces[k].box, images[i].width, images[i].height)

\* ---- C9: in every reachable state the processed output an image holds is
\* the output for its present regions (their boxes and selection flags) and
\* the present blur style.
C9_ProcessedIsCurrent ==
    \A i \in 1..Len(images) :
        images[i].processed # NULL =>
            images[i].processed = ProcessedOutput(images[i], blurType)

\* process has just given an output to an image that has a manual region
C9_Witness ==
    /\ lastEvent = "processImages"
    /\ \E i \in 1..Len(images) :
          /\ images[i].processed # NULL
          /\ Len(images[i].manualRegions) > 0

\* ---- C10: when a batch finishes, every file of it has an entry in the
\* working set: a file whose loading or detection failed has one with no
\* faces and no manual regions.
C10_FailedFileAdded ==
    [][(batch # NULL /\ batch' = NULL) =>
          /\ Len(images') = Len(images) + Len(batch.files)
          /\ \A j \in 1..Len(batch.files) :
               LET entry == images'[Len(images) + j]
                   file == batch.files[j]
               IN /\ entry.file = file.name
                  /\ ~(file.loads /\ file.detects) =>
                        entry.faces = <<>> /\ entry.manualRegions = <<>>]_vars

\* ---- batch isolation
FileSucceeds(file) == file.loads /\ file.detects
SuccessesBefore(b) == SelectSeq(SubSeq(b.files, 1, b.i - 1), FileSucceeds)
FileNames(entries) == [k \in 1..Len(entries) |-> entries[k].file]
NamesOf(fs) == [k \in 1..Len(fs) |-> fs[k].name]

\* C11: a failure on file N never keeps files N+1..K from being attempted.
\* While a batch runs the processing flag is set and the entries gathered
\* so far are those of the files before position i that succeeded, in
\* order; each resumption attempts file i and moves to file i + 1 whether
\* or not file i failed; the resumption of the last file appends every
\* gathered entry to the working set and resets the processing flag.
C11_BatchIsolation ==
    /\ [](batch # NULL =>
            /\ isProcessing
            /\ batch.i \in 1..Len(batch.files)
            /\ FileNames(batch.newImages) = NamesOf(SuccessesBefore(batch)))
    /\ [][batch # NULL =>
            IF lastEvent' = "batchResume"
            THEN LET file == batch.files[batch.i]
                     got == batch.newImages \o
                              (IF FileSucceeds(file)
                               THEN <<NewImageEntry(file, nextId)>> ELSE <<>>)
                 IN IF batch.i < Len(batch.files)
                    THEN /\ batch' # NULL
                         /\ batch'.files = batch.files
                         /\ batch'.i = batch.i + 1
                         /\ batch'.newImages = got
                         /\ images' = images
                    ELSE /\ batch' = NULL
                         /\ images' = images \o got
                         /\ ~isProcessing'
            ELSE batch' = batch]_vars

\* A three-file batch has ended whose first file failed: the entries of
\* the second and third files are the working set.
C11_Witness ==
    /\ batch = NULL
    /\ ~isProcessing
    /\ lastEvent = "batchResume"
    /\ Len(images) = 2
    /\ images[1].id = 2
    /\ images[2].id = 3

\* ---- model loading
\* C12: while the models are not loaded no detection occurs: a try block
\* yields no entry for any file, no batch is pending and the image list is
\* empty. A loadModels that fails sets the error and leaves the models
\* unloaded; a Retry clears the error, and when it succeeds the models are
\* loaded with no error; once the models are loaded nothing changes the
\* loading state again.
C12_LoadGate ==
    /\ [](~modelsLoaded =>
            /\ \A file \in Files : TryFile(file, nextId) = <<>>
            /\ batch = NULL
            /\ ~isProcessing
            /\ images = <<>>)
    /\ [][/\ (lastEvent' = "loadModelsFailed" =>
                 error' # noError /\ ~modelsLoaded' /\ ~loading')
           /\ (lastEvent' = "retry" =>
                 error # noError /\ error' = noError /\ loading' /\ ~modelsLoaded')
           /\ (lastEvent' \in {"modelsLoaded", "retryLoaded"} =>
                 ~modelsLoaded /\ modelsLoaded' /\ error' = noError /\ ~loading')
           /\ (modelsLoaded =>
                 modelsLoaded' /\ error' = error /\ loading' = loading)]_vars

\* The first loadModels failed and the Retry succeeded.
C12_Witness ==
    /\ lastEvent = "retryLoaded"
    /\ modelsLoaded
    /\ error = noError
    /\ ~loading

\* ---- person clustering
FaceIds(faces) == {faces[k].id : k \in 1..Len(faces)}
DistinctIds(faces) == \A j, k \in 1..Len(faces) : faces[j].id = faces[k].id => j = k
ClustersHolding(ps, id) == {p \in 1..Len(ps) : id \in SeqToSet(ps[p].faceIds)}

\* C13: clusterFacesByPerson partitions its input. For the faces of the
\* working set, whose ids are distinct, and every threshold, each face is a
\* member of exactly one cluster and is listed in it once, every cluster has
\* a member and only input faces as members, and no face gives no cluster.
C13_Partition ==
    DistinctIds(allFaces) =>
       \A t \in ThresholdsSq :
          LET ps == clusterFacesByPerson(allFaces, t)
          IN /\ \A id \in FaceIds(allFaces) : Cardinality(ClustersHolding(ps, id)) = 1
             /\ \A p \in 1..Len(ps) :
                   /\ Len(ps[p].faceIds) >= 1
                   /\ SeqToSet(ps[p].faceIds) \subseteq FaceIds(allFaces)
                   /\ Cardinality(SeqToSet(ps[p].faceIds)) = Len(ps[p].faceIds)
             /\ (allFaces = <<>> => ps = <<>>)

\* Five faces of three images are clustered into more than one person, one
\* of them with several members.
C13_Witness ==
    /\ batch = NULL
    /\ Len(images) = 3
    /\ Len(allFaces) = 5
    /\ Len(persons) > 1
    /\ \E p \in 1..Len(persons) : Len(persons[p].faceIds) > 1

PosOf(faces, id) == CHOOSE k \in 1..Len(faces) : faces[k].id = id
FaceOf(id) == allFaces[PosOf(allFaces, id)]
EarlierIds(ps, p) == UNION {SeqToSet(ps[q].faceIds) : q \in 1..(p - 1)}

\* C14: clustering is greedy against the seed only. For every threshold,
\* the first member of each cluster is the earliest face in input order
\* that no earlier cluster holds, and the other members are exactly the
\* faces no earlier cluster holds whose distance to that seed is strictly
\* below the threshold, in input order.
C14_GreedyAgainstSeed ==
    \A t \in ThresholdsSq :
       LET ps == clusterFacesByPerson(allFaces, t)
       IN \A p \in 1..Len(ps) :
             LET free == {k \in 1..Len(allFaces) : allFaces[k].id \notin EarlierIds(ps, p)}
                 seedPos == CHOOSE k \in free : \A m \in free : k <= m
                 seed == allFaces[seedPos]
                 near == {k \in free \ {seedPos} :
                            faceDistanceSq(seed.descriptor, allFaces[k].descriptor) < t}
                 ids == ps[p].faceIds
             IN /\ free # {}
                /\ ids[1] = seed.id
                /\ SeqToSet(ids) = {allFaces[k].id : k \in near \cup {seedPos}}
                /\ \A j, k \in 2..Len(ids) :
                      j < k => PosOf(allFaces, ids[j]) < PosOf(allFaces, ids[k])

\* A person of the grid has two members of different images that are not
\* within the threshold of each other: both are within it of the seed.
C14_Witness ==
    /\ batch = NULL
    /\ \E p \in 1..Len(persons) :
          \E a, b \in SeqToSet(persons[p].faceIds) :
             /\ a[1] # b[1]
             /\ faceDistanceSq(FaceOf(a).descriptor, FaceOf(b).descriptor) >= ThresholdSq

ChildMembers(person) == {id \in SeqToSet(person.faceIds) : FaceOf(id).isChild}

\* C15: for every threshold and every cluster, isChild is true exactly when
\* strictly more than half of the members are flagged as children; a
\* cluster split evenly between children and adults is not a child.
C15_ChildMajority ==
    \A t \in ThresholdsSq :
       LET ps == clusterFacesByPerson(allFaces, t)
       IN \A p \in 1..Len(ps) :
             ps[p].isChild <=>
                2 * Cardinality(ChildMembers(ps[p])) > Len(ps[p].faceIds)

\* The grid shows a person with one child and one adult member, which is
\* not a child, next to a person that is one.
C15_Witness ==
    /\ batch = NULL
    /\ \E p \in 1..Len(persons) :
          /\ Len(persons[p].faceIds) = 2
          /\ Cardinality(ChildMembers(persons[p])) = 1
          /\ ~persons[p].isChild
    /\ \E p \in 1..Len(persons) : persons[p].isChild

\* ---- person selection
MemberSelected(person) == \E id \in SeqToSet(person.faceIds) : FaceOf(id).selected

\* C16: a person is selected exactly when one of its member faces is, and
\* togglePersonSelection of person p sets the flag of every member face of
\* p, in whatever image, to the negation of that, leaving every other face,
\* every box and every manual region as it was.
C16_ToggleFrame ==
    /\ [](\A p \in 1..Len(persons) : persons[p].selected <=> MemberSelected(persons[p]))
    /\ [][lastEvent' = "togglePerson" =>
            \E p \in 1..Len(persons) :
               LET members == SeqToSet(persons[p].faceIds)
                   newSelected == ~MemberSelected(persons[p])
               IN /\ Len(images') = Len(images)
                  /\ \A i \in 1..Len(images) :
                        /\ images'[i].id = images[i].id
                        /\ images'[i].manualRegions = images[i].manualRegions
                        /\ Len(images'[i].faces) = Len(images[i].faces)
                        /\ \A k \in 1..Len(images[i].faces) :
                              images'[i].faces[k] =
                                 IF images[i].faces[k].id \in members
                                 THEN [images[i].faces[k] EXCEPT !.selected = newSelected]
                                 ELSE images[i].faces[k]]_vars

\* A person with a child and an adult member in two images, the child
\* preselected and the adult not, was toggled: both members are now
\* unselected, while the face of another person and a manual region exist.
C16_Witness ==
    /\ lastEvent = "togglePerson"
    /\ Len(persons) >= 2
    /\ \E i \in 1..Len(images) : Len(images[i].manualRegions) > 0
    /\ \E p \in 1..Len(persons) :
          /\ \E a, b \in SeqToSet(persons[p].faceIds) :
                a[1] # b[1] /\ FaceOf(a).isChild /\ ~FaceOf(b).isChild
          /\ ~persons[p].selected

\* ---- clustering again
Membership(ps) == [p \in 1..Len(ps) |-> ps[p].faceIds]
Embeddings(faces) == [k \in 1..Len(faces) |-> <<faces[k].id, faces[k].descriptor>>]

PairDistancesSq(faces) ==
    {faceDistanceSq(faces[j].descriptor, faces[k].descriptor) :
        j, k \in 1..Len(faces)}
NoTwoIdentical(faces) ==
    \A j, k \in 1..Len(faces) :
       j # k => faceDistanceSq(faces[j].descriptor, faces[k].descriptor) > 0

\* C18: with threshold 0 clustering never merges distinct faces. For a face
\* list in which no two embeddings are identical there are as many clusters
\* as faces and every cluster has exactly one member, the faces in input
\* order.
C18_ThresholdZero ==
    NoTwoIdentical(allFaces) =>
       LET ps == clusterFacesByPerson(allFaces, 0)
       IN /\ Len(ps) = Len(allFaces)
          /\ \A p \in 1..Len(ps) : ps[p].faceIds = <<allFaces[p].id>>

\* Three faces with different embeddings that the default threshold puts
\* in one person.
C18_Witness ==
    /\ batch = NULL
    /\ Len(allFaces) = 3
    /\ NoTwoIdentical(allFaces)
    /\ Len(persons) = 1

\* C19: with a threshold larger than every distance between two faces of a
\* non-empty list, clustering returns exactly one cluster, which holds all
\* the faces in input order.
C19_ThresholdAboveAll ==
    \A t \in ThresholdsSq :
       (allFaces # <<>> /\ \A d \in PairDistancesSq(allFaces) : d < t) =>
          LET ps == clusterFacesByPerson(allFaces, t)
          IN /\ Len(ps) = 1
             /\ ps[1].faceIds = [k \in 1..Len(allFaces) |-> allFaces[k].id]

\* Five or more faces that the default threshold splits into several
\* persons are all within the largest threshold of each other.
C19_Witness ==
    /\ batch = NULL
    /\ Len(allFaces) >= 5
    /\ Len(persons) >= 3
    /\ \E t \in ThresholdsSq : \A d \in PairDistancesSq(allFaces) : d < t

\* ---- blur frame
Regions20(imgData) == imgData.faces \o imgData.manualRegions

\* Whether the pixel (cx, cy), the unit square from (cx, cy), has no part
\* inside the box, whose coordinates are in steps of 1/unit pixel
PixelOutside(cx, cy, box, unit) ==
    \/ unit * (cx + 1) <= box.x
    \/ unit * cx >= box.x + box.width
    \/ unit * (cy + 1) <= box.y
    \/ unit * cy >= box.y + box.height

\* C20: applyBlurToFaces alters only the selected regions. In an output of
\* the pixelation style every pixel that lies outside the boxes of all the
\* selected regions of the image has the colour it has in the source.
C20_OutsideBoxesUnchanged ==
    \A i \in 1..Len(images) :
       (images[i].processed # NULL /\ images[i].processed.style = "pixel") =>
          \A cx \in 0..(images[i].img.width - 1), cy \in 0..(images[i].img.height - 1) :
             (\A k \in 1..Len(Regions20(images[i])) :
                 Regions20(images[i])[k].selected =>
                    PixelOutside(cx, cy, Regions20(images[i])[k].box,
                                 images[i].img.unit))
             => PixelAt(images[i].processed.canvas, cx, cy) = PixelAt(images[i].img, cx, cy)

\* ---- pixelation blocks
SelectedOf(imgData) == SelectSeq(Regions20(imgData), LAMBDA r : r.selected)

\* The canvas pixels of the block of the rounded box (x, y, width, height)
\* that holds the pixel (cx, cy), blocks counted from the top-left corner
\* of the box and clipped to it
BlockPixels(canvas, x, y, width, height, cx, cy) ==
    LET px == ((cx - x) \div PIXEL_SIZE) * PIXEL_SIZE
        py == ((cy - y) \div PIXEL_SIZE) * PIXEL_SIZE
        cols == Min(PIXEL_SIZE, width - px)
        rows == Min(PIXEL_SIZE, height - py)
    IN {q \in (0..(canvas.width - 1)) \X (0..(canvas.height - 1)) :
           /\ q[1] >= x + px /\ q[1] < x + px + cols
           /\ q[2] >= y + py /\ q[2] < y + py + rows}

RECURSIVE ChannelSum(_, _, _)
ChannelSum(canvas, pixels, c) ==
    IF pixels = {} THEN 0
    ELSE LET q == CHOOSE q \in pixels : TRUE
         IN PixelAt(canvas, q[1], q[2])[c] + ChannelSum(canvas, pixels \ {q}, c)

\* C21: after applyPixelation on a box the box is a grid of blocks of side
\* 24 counted from its top-left corner, and every pixel of a block has, in
\* red, green and blue, the rounded mean of that channel over the original
\* pixels of that block only. Stated for the outputs of the pixelation
\* style of an image with one selected region, on the box rounded to whole
\* pixels.
C21_BlockMeans ==
    \A i \in 1..Len(images) :
       (/\ images[i].processed # NULL
        /\ images[i].processed.style = "pixel"
        /\ Len(SelectedOf(images[i])) = 1) =>
          LET src == images[i].img
              box == SelectedOf(images[i])[1].box
              x == MathRound(box.x, src.unit)
              y == MathRound(box.y, src.unit)
              width == MathRound(box.width, src.unit)
              height == MathRound(box.height, src.unit)
          IN \A cx \in 0..(src.width - 1), cy \in 0..(src.height - 1) :
                (cx >= x /\ cx < x + width /\ cy >= y /\ cy < y + height) =>
                   LET block == BlockPixels(src, x, y, width, height, cx, cy)
                   IN \A c \in 1..3 :
                         PixelAt(images[i].processed.canvas, cx, cy)[c] =
                            Round(ChannelSum(src, block, c), Cardinality(block))

\* The regions of img of the kind a drag session is about
RegionsOfKind(img, drag) ==
    IF drag.type = "face" THEN img.faces ELSE img.manualRegions

\* The stored boxes, in imgs, of the region a drag session targets
TargetBoxes(imgs, drag) ==
    UNION {{RegionsOfKind(imgs[i], drag)[k].box :
               k \in {k \in 1..Len(RegionsOfKind(imgs[i], drag)) :
                          RegionsOfKind(imgs[i], drag)[k].id = drag.id}} :
           i \in 1..Len(imgs)}

\* ---- C22: throughout a drag session the stored box of the target region
\* equals the box captured when the session started; a pointer-move changes
\* the live box of the session and nothing else of the session or of the
\* images; the stored box changes only in the pointer-up step that ends the
\* session.
C22_StoredBoxFrozen ==
    /\ [](draggingRef # NULL =>
            \A b \in TargetBoxes(images, draggingRef) : b = draggingRef.initialBox)
    /\ [][(draggingRef # NULL /\ lastEvent' \in PointerMoves) =>
            /\ images' = images
            /\ draggingRef' # NULL
            /\ [draggingRef' EXCEPT !.currentBox = draggingRef.currentBox] = draggingRef]_vars
    /\ [][(/\ draggingRef # NULL
           /\ \E b \in TargetBoxes(images', draggingRef) :
                  b \notin TargetBoxes(images, draggingRef)) =>
            draggingRef' = NULL /\ lastEvent' \in PointerUps]_vars

\* a session whose live box has left the captured box, the stored box still
\* being the captured one
C22_Witness ==
    /\ draggingRef # NULL
    /\ lastEvent \in PointerMoves
    /\ draggingRef.currentBox # draggingRef.initialBox
    /\ TargetBoxes(images, draggingRef) = {draggingRef.initialBox}

\* ---- C23: a resize step moves only the edges its handle names: with e the
\* left edge stays, with w the right edge stays, with s the top edge stays,
\* with n the bottom edge stays, a handle of one axis leaves the other axis
\* as it was, and the resized box lies within the image bounds.
C23_ResizeFrame ==
    [][DragMoveStep("resize") =>
          LET b == draggingRef.currentBox
              r == draggingRef'.currentBox
              c == draggingRef.corner
          IN /\ HasE(c) => r.x = b.x
             /\ HasW(c) => r.x + r.width = b.x + b.width
             /\ HasS(c) => r.y = b.y
             /\ HasN(c) => r.y + r.height = b.y + b.height
             /\ ~(HasE(c) \/ HasW(c)) => r.x = b.x /\ r.width = b.width
             /\ ~(HasN(c) \/ HasS(c)) => r.y = b.y /\ r.height = b.height
             /\ WithinBounds(r, draggingRef.imgWidth, draggingRef.imgHeight)]_vars

\* ---- clustering and input order
\* The partition of the faces that a list of persons stands for
PartitionOf(ps) == {SeqToSet(ps[p].faceIds) : p \in 1..Len(ps)}

\* The face list with the faces at positions j and k exchanged
Swap(faces, j, k) ==
    [n \in 1..Len(faces) |->
        IF n = j THEN faces[k] ELSE IF n = k THEN faces[j] ELSE faces[n]]

\* The faces a selection of files puts in the working set, in order
BatchFaces(files) ==
    Flatten([i \in 1..Len(files) |-> NewImageEntry(files[i], i).faces])

\* Whether some exchange of two faces of the list changes the partition
OrderMatters(faces, thresholdSq) ==
    \E j, k \in 1..Len(faces) :
       PartitionOf(clusterFacesByPerson(Swap(faces, j, k), thresholdSq)) #
          PartitionOf(clusterFacesByPerson(faces, thresholdSq))

\* C24: cluster membership depends on input order. Among the face lists of
\* the working set and of the selections of files, and the thresholds, there
\* is a face list and a threshold for which two orderings of the same faces
\* are partitioned differently.
SelectionOrderMatters ==
    \E files \in ClusterBatches, t \in ThresholdsSq : OrderMatters(BatchFaces(files), t)

C24_OrderDependent ==
    \/ \E t \in ThresholdsSq : OrderMatters(allFaces, t)
    \/ SelectionOrderMatters

\* Three loaded faces that the default threshold puts in two persons and
\* that it would put in one person had two of them come in the other order
C24_Witness ==
    /\ batch = NULL
    /\ Len(allFaces) = 3
    /\ Len(persons) = 2
    /\ \E j, k \in 1..3 :
          Len(clusterFacesByPerson(Swap(allFaces, j, k), ThresholdSq)) = 1

\* ---- C25: every manual region is selected in every reachable state: it
\* is created selected and no handler clears the flag, so every processed
\* output was made with all the manual regions of its image selected.
C25_ManualAlwaysSelected ==
    \A i \in 1..Len(images) :
       /\ \A k \in 1..Len(images[i].manualRegions) :
             images[i].manualRegions[k].selected /\ images[i].manualRegions[k].isManual
       /\ images[i].processed # NULL =>
             /\ Len(images[i].processed.manualRegions) = Len(images[i].manualRegions)
             /\ \A k \in 1..Len(images[i].processed.manualRegions) :
                   images[i].processed.manualRegions[k].selected

\* Deselect All has just unselected every face while a manual region exists
C25_Witness ==
    /\ lastEvent = "deselectAll"
    /\ \E i \in 1..Len(images) :
          /\ Len(images[i].manualRegions) > 0
          /\ Len(images[i].faces) > 0
          /\ \A k \in 1..Len(images[i].faces) : ~images[i].faces[k].selected

\* ---- children only
\* Whether the face with this id is a member of a cluster of ps in which
\* strictly more than half of the members are children
InChildCluster(ps, faces, id) ==
    \E p \in 1..Len(ps) :
       /\ id \in SeqToSet(ps[p].faceIds)
       /\ 2 * Cardinality({k \in 1..Len(faces) :
                              faces[k].id \in SeqToSet(ps[p].faceIds) /\ faces[k].isChild})
             > Len(ps[p].faceIds)

\* C26: after selectChildrenOnly a detected face is selected iff it is a
\* member of a cluster in which strictly more than half of the members are
\* children, whatever its own child flag and its previous selection;
\* nothing else of a face changes and the manual regions are as they were.
C26_ChildrenOnly ==
    [][lastEvent' = "selectChildren" =>
          /\ Len(images') = Len(images)
          /\ \A i \in 1..Len(images) :
                /\ images'[i].id = images[i].id
                /\ images'[i].manualRegions = images[i].manualRegions
                /\ Len(images'[i].faces) = Len(images[i].faces)
                /\ \A k \in 1..Len(images[i].faces) :
                      images'[i].faces[k] =
                         [images[i].faces[k] EXCEPT
                            !.selected = InChildCluster(persons, allFaces,
                                                        images[i].faces[k].id)]]_vars

\* Children Only has just run and left a face with a selection that differs
\* from its own child flag, while a manual region exists
C26_Witness ==
    /\ lastEvent = "selectChildren"
    /\ \E k \in 1..Len(allFaces) : allFaces[k].selected # allFaces[k].isChild
    /\ \E i \in 1..Len(images) : Len(images[i].manualRegions) > 0

\* ---- C27: processImages starts from the original pixels of each image.
\* The output of a run is what applyBlurToFaces makes of the original image
\* with the regions and the style of that moment, whatever output the image
\* had before: an image that has an output from an earlier run, nothing
\* having changed since, gets the same output again, and an image none of
\* whose regions is selected gets its original pixels.
C27_FromOriginal ==
    [][lastEvent' = "processImages" =>
          \A i \in 1..Len(images) :
             /\ images'[i].processed.style = blurType
             /\ images'[i].processed.canvas =
                   applyBlurToFaces(images[i].img,
                                    images[i].faces \o images[i].manualRegions, blurType)
             /\ images[i].processed # NULL => images'[i].processed = images[i].processed
             /\ SelectedOf(images[i]) = <<>> =>
                   images'[i].processed.canvas = images[i].img]_vars

\* The image was processed again straight after a run that had blurred two
\* selected regions of it
C27_Witness ==
    /\ lastEvent = "processImages"
    /\ left.runs <= BlurMaxRuns - 2
    /\ left.clicks = BlurMaxClicks
    /\ Len(SelectedOf(images[1])) = 2
    /\ images[1].processed.canvas # images[1].img

\* ---- C28: whenever the working set is not empty and no batch is in
\* flight, selectedImageId is the id of an image of the working set.
C28_SelectionValid ==
    (Len(images) > 0 /\ batch = NULL) => selectedImageId \in ImageIds

\* ---- C29: the completion of a batch appends the new images to the list
\* as it is at that moment and changes no image of it, so whatever was done
\* to the loaded images while the batch was awaiting (selection, manual
\* regions, committed boxes, removal) is still there; a step of the batch
\* before its completion leaves the list as it is.
C29_CompletionAppends ==
    [][(batch # NULL /\ lastEvent' = "batchResume") =>
          /\ Len(images') >= Len(images)
          /\ SubSeq(images', 1, Len(images)) = images
          /\ batch' # NULL => images' = images
          /\ \A i \in (Len(images) + 1)..Len(images') :
                images'[i].id \notin ImageIds]_vars

\* A second batch has completed beside a first image on which a manual
\* region was drawn and the child face unselected
C29_Witness ==
    /\ lastEvent = "batchResume"
    /\ batch = NULL
    /\ Len(images) = 2
    /\ left.batches = LaterMaxBatches - 2
    /\ Len(images[1].manualRegions) > 0
    /\ \E k \in 1..Len(images[1].faces) :
          images[1].faces[k].isChild /\ ~images[1].faces[k].selected

====
